---- MODULE Spec2Model ----
(***************************************************************************)
(* google-tasks-mcp: the tool registry / dispatcher of src/index.js and    *)
(* the Task Data Client of src/tasks-api.js, with the remote task service  *)
(* and the two authorization files as their environment.                   *)
(*                                                                         *)
(* JavaScript values are modelled as strings: Undefined stands for the     *)
(* value undefined (an absent property), Null for null.  An object is a    *)
(* function from its keys to values.                                       *)
(***************************************************************************)
EXTENDS Integers, Sequences, FiniteSets, Bags, TLC

\* ------------------------------------------------------------------ bounds
MaxInFlight == 2
MaxTasks == 1
MaxPasses == 2

\* ------------------------------------------------------- JavaScript values
Undefined == "<undefined>"
Null == "<null>"
Falsy(v) == v \in {Undefined, Null, "", "false"}
\* a || b
Or(a, b) == IF Falsy(a) THEN b ELSE a
\* a ?? b
Coalesce(a, b) == IF a \in {Undefined, Null} THEN b ELSE a

EmptyObject == [k \in {} |-> Undefined]
\* JSON.stringify(value, null, 2) of an object: properties whose value is
\* undefined are left out, null is kept.
StringifyObject(o) == [k \in {j \in DOMAIN o : o[j] # Undefined} |-> o[k]]

\* --------------------------------------------------------------- registry
\* One descriptor per tool: name, the parameters of inputSchema.properties
\* and inputSchema.required.
\* the create_task descriptor with no required parameter
CreateTaskTool_NothingRequired ==
  [name |-> "create_task",
   properties |-> {"tasklist_id", "title", "notes", "due", "parent"},
   required |-> {}]

CreateTaskTool ==
  [name |-> "create_task",
   properties |-> {"tasklist_id", "title", "notes", "due", "parent"},
   required |-> {"title"}]

TOOLS ==
  << [name |-> "list_task_lists", properties |-> {}, required |-> {}],
     [name |-> "list_tasks",
      properties |-> {"tasklist_id", "show_completed", "due_min", "due_max"},
      required |-> {}],
     [name |-> "get_task", properties |-> {"tasklist_id", "task_id"},
      required |-> {"tasklist_id", "task_id"}],
     CreateTaskTool,
     [name |-> "update_task",
      properties |-> {"tasklist_id", "task_id", "title", "notes", "due", "status"},
      required |-> {"tasklist_id", "task_id"}],
     [name |-> "complete_task", properties |-> {"tasklist_id", "task_id"},
      required |-> {"tasklist_id", "task_id"}],
     [name |-> "delete_task", properties |-> {"tasklist_id", "task_id"},
      required |-> {"tasklist_id", "task_id"}],
     [name |-> "move_task",
      properties |-> {"tasklist_id", "task_id", "parent", "previous"},
      required |-> {"tasklist_id", "task_id"}] >>

\* the case labels of the dispatcher's switch
SwitchCases ==
  {"list_task_lists", "list_tasks", "get_task", "create_task", "update_task",
   "complete_task", "delete_task", "move_task"}

\* ------------------------------------------------------------ environment
TaskNames == <<"t1", "t2", "t3", "t4">>
\* new Date().toISOString(): the instant of the call, never null
Now == "2026-11-06T00:00:00.000Z"
DefaultList == "@default"

ArgKeys ==
  {"tasklist_id", "task_id", "title", "notes", "due", "status", "parent",
   "previous", "show_completed", "due_min", "due_max"}
NoFields == [k \in ArgKeys |-> Undefined]
\* an arguments object with the given properties set
WithArgs(o) == [k \in ArgKeys |-> IF k \in DOMAIN o THEN o[k] ELSE Undefined]

JsTrue == "true"
JsFalse == "false"
NoError == "<no error>"

\* -------------------------------------------------------- error messages
MissingCreds == "Missing .credentials.json - run: node src/auth.js"
MissingTokens == "Missing .tokens.json - run: node src/auth.js"
JsonSyntaxError == "Unexpected token in JSON"
UndefinedArgsError == "Cannot read properties of undefined (reading 'tasklist_id')"
UnknownToolPrefix == "Unknown tool: "
\* messages of the remote service and of the HTTP client
NotFoundError == "Not Found"
MissingParamError == "Missing required parameters"
QuotaError == "Quota exceeded"
NetworkError == "request failed"
InvalidGrantError == "invalid_grant"

\* --------------------------------------------------- Task Data Client
\* buildClient(): the error it throws, NoError when it returns a client.
buildClient(creds, tokens) ==
  IF creds = "absent" THEN MissingCreds
  ELSE IF tokens = "absent" THEN MissingTokens
  ELSE IF creds = "malformed" \/ tokens = "malformed" THEN JsonSyntaxError
  ELSE NoError

\* the parameters of one call of the googleapis client
ApiCall(method) ==
  [method |-> method, tasklist |-> Undefined, task |-> Undefined,
   parent |-> Undefined, previous |-> Undefined, maxResults |-> Undefined,
   showCompleted |-> Undefined, showHidden |-> Undefined,
   dueMin |-> Undefined, dueMax |-> Undefined, body |-> EmptyObject]

listTaskLists == [ApiCall("tasklists.list") EXCEPT !.maxResults = "100"]

listTasks(tasklistId, opts) ==
  [ApiCall("tasks.list") EXCEPT
     !.tasklist = IF tasklistId = Undefined THEN DefaultList ELSE tasklistId,
     !.maxResults = "100",
     !.showCompleted = Coalesce(opts.showCompleted, JsFalse),
     !.showHidden = Coalesce(opts.showHidden, JsFalse),
     !.dueMin = opts.dueMin,
     !.dueMax = opts.dueMax]

getTask(tasklistId, taskId) ==
  [ApiCall("tasks.get") EXCEPT !.tasklist = tasklistId, !.task = taskId]

\* createTask leaving the status to the service
createTask_NoStatus(tasklistId, task) ==
  [ApiCall("tasks.insert") EXCEPT
     !.tasklist = IF tasklistId = Undefined THEN DefaultList ELSE tasklistId,
     !.body = StringifyObject(
                [title |-> task.title, notes |-> task.notes, due |-> task.due]),
     !.parent = IF Falsy(task.parent) THEN Undefined ELSE task.parent]

createTask(tasklistId, task) ==
  [ApiCall("tasks.insert") EXCEPT
     !.tasklist = IF tasklistId = Undefined THEN DefaultList ELSE tasklistId,
     !.body = StringifyObject(
                [title |-> task.title, notes |-> task.notes, due |-> task.due,
                 status |-> "needsAction"]),
     !.parent = IF Falsy(task.parent) THEN Undefined ELSE task.parent]

\* UpdateBody sending every field, an empty string for those not given
UpdateBody_Overwrite(updates) ==
  [k \in {"title", "notes", "due", "status"}
         \cup (IF updates.status = "completed" THEN {"completed"} ELSE {})
     |-> IF k = "completed" THEN Now ELSE Or(updates[k], "")]

\* the request body of updateTask
UpdateBody(updates) ==
  [k \in {j \in {"title", "notes", "due", "status"} : updates[j] # Undefined}
         \cup (IF updates.status = "completed" THEN {"completed"} ELSE {})
     |-> IF k = "completed" THEN Now ELSE updates[k]]

updateTask(tasklistId, taskId, updates) ==
  [ApiCall("tasks.patch") EXCEPT
     !.tasklist = tasklistId, !.task = taskId, !.body = UpdateBody(updates)]

\* CompleteUpdates wiping the notes of the task
CompleteUpdates_ClearsNotes ==
  [title |-> Undefined, notes |-> "", due |-> Undefined, status |-> "completed"]

\* the updates object completeTask hands to updateTask
CompleteUpdates ==
  [title |-> Undefined, notes |-> Undefined, due |-> Undefined,
   status |-> "completed"]

completeTask(tasklistId, taskId) ==
  updateTask(tasklistId, taskId, CompleteUpdates)

deleteTask(tasklistId, taskId) ==
  [ApiCall("tasks.delete") EXCEPT !.tasklist = tasklistId, !.task = taskId]

moveTask(tasklistId, taskId, opts) ==
  [ApiCall("tasks.move") EXCEPT
     !.tasklist = tasklistId, !.task = taskId,
     !.parent = opts.parent, !.previous = opts.previous]

\* formatTask without the || defaults
formatTask_PassThrough(t) ==
  [id |-> t.id, title |-> t.title, notes |-> t.notes, status |-> t.status,
   due |-> t.due, completed |-> t.completed, parent |-> t.parent,
   position |-> t.position, updated |-> t.updated, selfLink |-> t.selfLink]

\* formatTask with a title default that is itself replaced: absent becomes
\* null and null becomes ""
formatTask_UnstableDefault(t) ==
  [id |-> t.id,
   title |-> IF t.title = Undefined THEN Null ELSE Or(t.title, ""),
   notes |-> Or(t.notes, ""),
   status |-> t.status,
   due |-> Or(t.due, Null),
   completed |-> Or(t.completed, Null),
   parent |-> Or(t.parent, Null),
   position |-> Or(t.position, Null),
   updated |-> t.updated,
   selfLink |-> t.selfLink]

formatTask(t) ==
  [id |-> t.id,
   title |-> Or(t.title, ""),
   notes |-> Or(t.notes, ""),
   status |-> t.status,
   due |-> Or(t.due, Null),
   completed |-> Or(t.completed, Null),
   parent |-> Or(t.parent, Null),
   position |-> Or(t.position, Null),
   updated |-> t.updated,
   selfLink |-> t.selfLink]

formatTaskList(l) == [id |-> l.id, title |-> l.title, updated |-> l.updated]

\* ------------------------------------------------------------ dispatcher
\* the switch of the call-tool handler: the Data Client call of each case
Dispatch(name, args) ==
  CASE name = "list_task_lists" -> listTaskLists
    [] name = "list_tasks" ->
         listTasks(Or(args.tasklist_id, DefaultList),
                   [showCompleted |-> args.show_completed,
                    showHidden |-> Undefined,
                    dueMin |-> args.due_min, dueMax |-> args.due_max])
    [] name = "get_task" -> getTask(args.tasklist_id, args.task_id)
    [] name = "create_task" ->
         createTask(Or(args.tasklist_id, DefaultList),
                    [title |-> args.title, notes |-> args.notes,
                     due |-> args.due, parent |-> args.parent])
    [] name = "update_task" ->
         updateTask(args.tasklist_id, args.task_id,
                    [title |-> args.title, notes |-> args.notes,
                     due |-> args.due, status |-> args.status])
    [] name = "complete_task" ->
         completeTask(args.tasklist_id, args.task_id)
    [] name = "delete_task" -> deleteTask(args.tasklist_id, args.task_id)
    [] name = "move_task" ->
         moveTask(args.tasklist_id, args.task_id,
                  [parent |-> args.parent, previous |-> args.previous])

\* SyncError without the call of buildClient
SyncError_NoClient(name, hasArgs, creds, tokens) ==
  IF name \notin SwitchCases THEN UnknownToolPrefix \o name
  ELSE IF name # "list_task_lists" /\ ~hasArgs THEN UndefinedArgsError
  ELSE NoError

\* The error thrown inside the try block before the first await, NoError
\* when the handler reaches its remote call: the default case of the
\* switch, the read of a property of an undefined arguments value, then
\* buildClient.
SyncError(name, hasArgs, creds, tokens) ==
  IF name \notin SwitchCases THEN UnknownToolPrefix \o name
  ELSE IF name # "list_task_lists" /\ ~hasArgs THEN UndefinedArgsError
  ELSE buildClient(creds, tokens)

\* HandlerResult with deleteTask returning the formatted reply
HandlerResult_DeleteFormats(name, args, reply) ==
  CASE name = "list_task_lists" ->
         [isArray |-> TRUE,
          values |-> [i \in DOMAIN reply.items |-> formatTaskList(reply.items[i])]]
    [] name = "list_tasks" ->
         [isArray |-> TRUE,
          values |-> [i \in DOMAIN reply.items |-> formatTask(reply.items[i])]]
    [] OTHER -> [isArray |-> FALSE, values |-> << formatTask(reply.data) >>]

\* what a handler returns, as the array or the single object it is
HandlerResult(name, args, reply) ==
  CASE name = "list_task_lists" ->
         [isArray |-> TRUE,
          values |-> [i \in DOMAIN reply.items |-> formatTaskList(reply.items[i])]]
    [] name = "list_tasks" ->
         [isArray |-> TRUE,
          values |-> [i \in DOMAIN reply.items |-> formatTask(reply.items[i])]]
    [] name = "delete_task" ->
         [isArray |-> FALSE,
          values |-> << [deleted |-> JsTrue, taskId |-> args.task_id] >>]
    [] OTHER -> [isArray |-> FALSE, values |-> << formatTask(reply.data) >>]

\* the tools whose handler returns formatTask of what the service sent
TaskTools ==
  {"list_tasks", "get_task", "create_task", "update_task", "complete_task",
   "move_task"}

\* the records of a reply that the handler of the tool passes to formatTask:
\* res.data.items of listTasks, res.data of the other handlers
FormatInputs(name, reply) ==
  IF name = "list_tasks" THEN reply.items
  ELSE IF name \in TaskTools THEN << reply.data >>
  ELSE << >>

\* JSON.stringify(result, null, 2)
Stringify(result) ==
  [isArray |-> result.isArray,
   values |-> [i \in DOMAIN result.values |-> StringifyObject(result.values[i])]]

NoJson == [isArray |-> FALSE, values |-> << >>]

\* SuccessResult serializing with String(result)
SuccessResult_ToString(result) ==
  [content |-> << [type |-> "text", prefix |-> "", message |-> "[object Object]",
                   json |-> NoJson] >>,
   isError |-> Undefined]

\* the object returned after the switch
SuccessResult(result) ==
  [content |-> << [type |-> "text", prefix |-> "", message |-> "",
                   json |-> Stringify(result)] >>,
   isError |-> Undefined]

\* the object returned by the catch block
ErrorResult(message) ==
  [content |-> << [type |-> "text", prefix |-> "Error: ", message |-> message,
                   json |-> NoJson] >>,
   isError |-> JsTrue]

NoResult == [isArray |-> FALSE, values |-> << >>]

\* CallToolReturn with the switch outside the try block
CallToolReturn_Uncaught(thrown, returned) ==
  [escaped |-> thrown # NoError,
   result |-> IF thrown # NoError THEN ErrorResult(thrown)
              ELSE SuccessResult(returned)]

\* The try/catch of the call-tool handler: thrown is the error raised
\* inside the try block (NoError when there is none), returned the value
\* the Data Client returned.  escaped says whether an error leaves the
\* handler towards the transport.
CallToolReturn(thrown, returned) ==
  [escaped |-> FALSE,
   result |-> IF thrown # NoError THEN ErrorResult(thrown)
              ELSE SuccessResult(returned)]

\* -------------------------------------------------- remote task service
\* The service is the system of record.  It holds one list, DefaultList,
\* and hands out task ids in the order of TaskNames, never twice.
AllIds == {TaskNames[i] : i \in 1..MaxTasks}
TaskFields == {"title", "notes", "due", "status", "completed", "parent"}
NoData == [k \in TaskFields |-> Undefined]
FreeTask == [state |-> "free", data |-> NoData]
DeletedTask == [state |-> "deleted", data |-> NoData]

\* the task resource the service returns for task t with fields d
Resource(t, d) ==
  [id |-> t, title |-> d.title, notes |-> d.notes, status |-> d.status,
   due |-> d.due, completed |-> d.completed, parent |-> d.parent,
   position |-> "00000000000000000001", updated |-> "2026-01-01T00:00:00.000Z",
   selfLink |-> "https://www.googleapis.com/tasks/v1/lists/x/tasks/" \o t]

NoResource ==
  [k \in {"id", "title", "notes", "status", "due", "completed", "parent",
          "position", "updated", "selfLink"} |-> Undefined]

ListResource ==
  [id |-> "L1", title |-> "My Tasks", updated |-> "2026-01-01T00:00:00.000Z"]

Reply(error, data, items, tks) ==
  [error |-> error, data |-> data, items |-> items, tasks |-> tks]

Failure(error, tks) == Reply(error, NoResource, << >>, tks)

IsLive(t, tks) == t \in AllIds /\ tks[t].state = "live"

\* the first id not handed out yet; only used when one is left
FreshId(tks) ==
  TaskNames[1 + Cardinality({t \in AllIds : tks[t].state # "free"})]

Visible(t, tks, showCompleted) ==
  IsLive(t, tks) /\ (showCompleted = JsTrue \/ tks[t].data.status # "completed")

\* What the service does with one request and what it answers.  A patch
\* changes the fields of its body and no other.
Service(req, tks) ==
  IF req.method = "tasklists.list"
  THEN Reply(NoError, NoResource, << ListResource >>, tks)
  ELSE IF req.tasklist = Undefined THEN Failure(MissingParamError, tks)
  ELSE IF req.tasklist # DefaultList THEN Failure(NotFoundError, tks)
  ELSE IF req.method = "tasks.list"
  THEN LET ids == SelectSeq(SubSeq(TaskNames, 1, MaxTasks),
                            LAMBDA t : Visible(t, tks, req.showCompleted))
       IN Reply(NoError, NoResource,
                [i \in DOMAIN ids |-> Resource(ids[i], tks[ids[i]].data)], tks)
  ELSE IF req.method = "tasks.insert"
  THEN IF \A t \in AllIds : tks[t].state # "free"
       THEN Failure(QuotaError, tks)
       ELSE LET t == FreshId(tks)
                d == [k \in TaskFields |->
                        IF k = "parent" THEN req.parent
                        ELSE IF k \in DOMAIN req.body THEN req.body[k]
                        ELSE Undefined]
            IN Reply(NoError, Resource(t, d), << >>,
                     [tks EXCEPT ![t] = [state |-> "live", data |-> d]])
  ELSE IF req.task = Undefined THEN Failure(MissingParamError, tks)
  ELSE IF ~IsLive(req.task, tks) THEN Failure(NotFoundError, tks)
  ELSE LET t == req.task
           old == tks[t].data
       IN CASE req.method = "tasks.get" ->
                 Reply(NoError, Resource(t, old), << >>, tks)
            [] req.method = "tasks.patch" ->
                 LET d == [k \in TaskFields |->
                             IF k \in DOMAIN req.body THEN req.body[k] ELSE old[k]]
                 IN Reply(NoError, Resource(t, d), << >>,
                          [tks EXCEPT ![t].data = d])
            [] req.method = "tasks.delete" ->
                 Reply(NoError, NoResource, << >>, [tks EXCEPT ![t] = DeletedTask])
            [] req.method = "tasks.move" ->
                 LET d == [old EXCEPT !.parent = req.parent]
                 IN Reply(NoError, Resource(t, d), << >>,
                          [tks EXCEPT ![t].data = d])

\* ------------------------------------------------------------------ state
VARIABLES
  credsFile,   \* .credentials.json: "absent", "valid" or "malformed"
  tokensFile,  \* .tokens.json: "absent", "valid" or "malformed"
  registry,    \* the TOOLS array of the server
  tasks,       \* the remote service: what it holds under each task id
  inflight,    \* bag of the handler invocations suspended at their await
  response,    \* the tool result the last step returned to the transport
  listed,      \* the tools the last step returned to a list-tools request
  raw,         \* the raw records the last step passed to formatTask
  normalized   \* what formatTask returned for them

vars ==
  << credsFile, tokensFile, registry, tasks, inflight, response, listed,
     raw, normalized >>

FileStates == {"absent", "valid", "malformed"}

\* ----------------------------------------------------------------- inputs
ToolNames == SwitchCases \cup {"unknown_tool_xyz"}

OnTask(o) == {WithArgs([tasklist_id |-> DefaultList, task_id |-> t] @@ o) : t \in AllIds}

UpdateArgs ==
  UNION {OnTask([title |-> ti, notes |-> no, due |-> du, status |-> st]) :
           ti \in {Undefined, "Buy bread"}, no \in {Undefined, "2 loaves"},
           du \in {Undefined, "2026-03-01T00:00:00.000Z"},
           st \in {Undefined, "needsAction", "completed"}}

CreateArgs ==
  {WithArgs(o) : o \in
     {[title |-> "Buy milk"],
      [title |-> "Buy milk", parent |-> "t1"],
      [title |-> "Buy milk", parent |-> ""],
      [tasklist_id |-> DefaultList, title |-> "Buy milk", notes |-> "2 loaves",
       due |-> "2026-03-01T00:00:00.000Z", status |-> "completed"]}}

\* the argument objects a client sends with each tool name
ArgsFor(name) ==
  CASE name = "list_tasks" -> {NoFields, WithArgs([show_completed |-> JsTrue])}
    [] name = "get_task" -> {NoFields} \cup OnTask(EmptyObject)
    [] name = "create_task" -> CreateArgs
    [] name = "update_task" -> UpdateArgs
    [] name = "complete_task" -> OnTask(EmptyObject)
    [] name = "delete_task" -> OnTask(EmptyObject)
    [] name = "move_task" -> OnTask(EmptyObject) \cup OnTask([parent |-> "t1"])
    [] OTHER -> {NoFields}

\* ------------------------------------------------------------ invocations
\* One invocation of the call-tool handler: the tool it was called for,
\* whether request.params.arguments was there, the authorization files as
\* buildClient found them and the number of remote calls it has issued.
\* The arguments object is an input no other invocation can read; it is
\* drawn in the step that answers the remote call built from it, so that
\* suspended invocations of one tool are one element of the bag.
Invocation(name, hasArgs) ==
  [name |-> name, hasArgs |-> hasArgs, creds |-> credsFile,
   tokens |-> tokensFile, ops |-> 0]

\* IssueRequest sending the request a second time
IssueRequest_Twice(inv) == [inv EXCEPT !.ops = @ + 2]

\* await api.<method>(...)
IssueRequest(inv) == [inv EXCEPT !.ops = @ + 1]

NoInvocation ==
  [name |-> "", hasArgs |-> FALSE, creds |-> "absent", tokens |-> "absent",
   ops |-> 0]

\* What a step hands to the transport: the tool result, with the
\* invocation it ends, the arguments and the remote call of that
\* invocation, the error thrown in it and the value its handler returned.
NoResponse ==
  [sent |-> FALSE, inv |-> NoInvocation, args |-> NoFields,
   req |-> ApiCall("none"), thrown |-> NoError, returned |-> NoResult,
   escaped |-> FALSE, result |-> ErrorResult("")]

Respond(inv, args, req, thrown, returned) ==
  LET out == CallToolReturn(thrown, returned)
  IN [sent |-> TRUE, inv |-> inv, args |-> args, req |-> req,
      thrown |-> thrown,
      returned |-> IF thrown = NoError THEN returned ELSE NoResult,
      escaped |-> out.escaped, result |-> out.result]

\* ---------------------------------------------------------------- actions
Init ==
  /\ credsFile \in FileStates
  /\ tokensFile \in FileStates
  /\ registry = TOOLS
  /\ tasks = [t \in AllIds |-> FreeTask]
  /\ inflight = EmptyBag
  /\ response = NoResponse
  /\ listed = << >>
  /\ raw = << >>
  /\ normalized = << >>

\* The list-tools handler.
ListTools ==
  /\ listed' = registry
  /\ response' = NoResponse
  /\ raw' = << >>
  /\ normalized' = << >>
  /\ UNCHANGED << credsFile, tokensFile, registry, tasks, inflight >>

\* The call-tool handler from its entry to its first await: it either
\* fails in the try block and returns the catch block's result, or issues
\* its remote call and is suspended.  Nothing makes a later request wait
\* for an earlier one.
CallTool(name, hasArgs) ==
  LET inv == Invocation(name, hasArgs)
      err == SyncError(name, hasArgs, credsFile, tokensFile)
  IN /\ IF err # NoError
        THEN /\ response' = Respond(inv, NoFields, ApiCall("none"), err, NoResult)
             /\ inflight' = inflight
        ELSE /\ BagCardinality(inflight) < MaxInFlight
             /\ inflight' = inflight (+) SetToBag({IssueRequest(inv)})
             /\ response' = NoResponse
     /\ listed' = << >>
     /\ raw' = << >>
     /\ normalized' = << >>
     /\ UNCHANGED << credsFile, tokensFile, registry, tasks >>

\* The remote service answers the call of a suspended handler (or the
\* request fails on the way), and the handler runs from its await to its
\* return.
RemoteReplies(inv, args, outcome) ==
  LET req == Dispatch(inv.name, args)
      reply == IF outcome = NoError THEN Service(req, tasks)
               ELSE Failure(outcome, tasks)
  IN /\ BagIn(inv, inflight)
     /\ inflight' = inflight (-) SetToBag({inv})
     /\ tasks' = reply.tasks
     /\ response' = Respond(inv, args, req, reply.error,
                             HandlerResult(inv.name, args, reply))
     /\ listed' = << >>
     /\ raw' = (IF reply.error = NoError THEN FormatInputs(inv.name, reply)
                ELSE << >>)
     /\ normalized' = (IF reply.error = NoError /\ inv.name \in TaskTools
                       THEN HandlerResult(inv.name, args, reply).values
                       ELSE << >>)
     /\ UNCHANGED << credsFile, tokensFile, registry >>

\* The "tokens" listener that buildClient registers: while a handler awaits
\* its remote call, the OAuth2 client of that invocation refreshes the
\* access token and the listener writes the tokens file.
TokensRefreshed ==
  /\ inflight # EmptyBag
  /\ tokensFile' = "valid"
  /\ response' = NoResponse
  /\ listed' = << >>
  /\ raw' = << >>
  /\ normalized' = << >>
  /\ UNCHANGED << credsFile, registry, tasks, inflight >>

\* auth.js: the one-time authorization writes the tokens file.
RunAuth ==
  /\ credsFile = "valid"
  /\ tokensFile' = "valid"
  /\ response' = NoResponse
  /\ listed' = << >>
  /\ raw' = << >>
  /\ normalized' = << >>
  /\ UNCHANGED << credsFile, registry, tasks, inflight >>

Next ==
  \/ ListTools
  \/ \E name \in ToolNames, hasArgs \in BOOLEAN : CallTool(name, hasArgs)
  \/ \E inv \in BagToSet(inflight),
        outcome \in {NoError, NetworkError, InvalidGrantError} :
       \E args \in (IF inv.hasArgs THEN ArgsFor(inv.name) ELSE {NoFields}) :
         RemoteReplies(inv, args, outcome)
  \/ TokensRefreshed
  \/ RunAuth

Spec == Init /\ [][Next]_vars

\* ------------------------------------------------- formatTask on its own
\* formatTask as a function of any raw record: every optional field is
\* absent, empty or set.  Here raw holds the one record and normalized the
\* results of applying formatTask to it once, twice, ...
OptionalValues(v) == {Undefined, "", v}

RawRecords ==
  [id : {"t1"},
   title : OptionalValues("Buy milk"),
   notes : OptionalValues("2 loaves"),
   status : {"needsAction", "completed"},
   due : OptionalValues("2026-03-01T00:00:00.000Z"),
   completed : OptionalValues(Now),
   parent : OptionalValues("t2"),
   position : OptionalValues("00000000000000000001"),
   updated : {"2026-01-01T00:00:00.000Z"},
   selfLink : {"https://www.googleapis.com/tasks/v1/lists/x/tasks/t1"}]

FormatInit ==
  /\ credsFile = "valid"
  /\ tokensFile = "valid"
  /\ registry = TOOLS
  /\ tasks = [t \in AllIds |-> FreeTask]
  /\ inflight = EmptyBag
  /\ response = NoResponse
  /\ listed = << >>
  /\ raw \in {<< r >> : r \in RawRecords}
  /\ normalized = << >>

\* formatTask(t) for the raw record t
Normalize ==
  /\ normalized = << >>
  /\ normalized' = << formatTask(raw[1]) >>
  /\ UNCHANGED << credsFile, tokensFile, registry, tasks, inflight, response,
                  listed, raw >>

\* formatTask applied to what formatTask returned
Renormalize ==
  /\ normalized # << >>
  /\ Len(normalized) < MaxPasses
  /\ normalized' = Append(normalized, formatTask(normalized[Len(normalized)]))
  /\ UNCHANGED << credsFile, tokensFile, registry, tasks, inflight, response,
                  listed, raw >>

FormatNext == Normalize \/ Renormalize

FormatSpec == FormatInit /\ [][FormatNext]_vars

\* ================================================================= claims
RegisteredNames == {registry[i].name : i \in DOMAIN registry}
Content == response.result.content
\* the invocation behind the response reached its remote call
Reached == response.sent /\ response.inv.ops > 0
AnsweredBy(name) == response.sent /\ response.inv.name = name
Succeeded(name) == AnsweredBy(name) /\ response.thrown = NoError
TransportErrors == {NetworkError, InvalidGrantError}

\* C1: every call-tool request, whatever its tool name and with or without
\* arguments, ends in a tool result and no error leaves the handler; when
\* the name is not a registered tool or anything was thrown in the handler,
\* the result has isError true and one text item that carries the error's
\* message and no handler result.
C1_ErrorsBecomeResults ==
  response.sent =>
    /\ ~response.escaped
    /\ Len(Content) = 1
    /\ Content[1].type = "text"
    /\ (response.inv.name \notin RegisteredNames =>
          /\ response.result.isError = JsTrue
          /\ Content[1].message = UnknownToolPrefix \o response.inv.name)
    /\ (response.thrown # NoError =>
          /\ response.result.isError = JsTrue
          /\ Content[1].prefix = "Error: "
          /\ Content[1].message = response.thrown
          /\ Content[1].json = NoJson)

\* C1 witness: a remote call was answered "not found" and the invocation
\* ended in an error result.
C1_Witness ==
  /\ Reached
  /\ response.thrown = NotFoundError
  /\ response.result.isError = JsTrue

\* the id the service handed out last
LastId == TaskNames[Cardinality({t \in AllIds : tasks[t].state # "free"})]

\* what the handler of the response returns, read off the remote service
\* as the step left it
Expected ==
  LET name == response.inv.name
      t == IF name = "create_task" THEN LastId ELSE response.args.task_id
  IN CASE name = "list_task_lists" ->
            [isArray |-> TRUE,
             values |-> << [id |-> ListResource.id, title |-> ListResource.title,
                            updated |-> ListResource.updated] >>]
       [] name = "list_tasks" ->
            LET ids == SelectSeq(SubSeq(TaskNames, 1, MaxTasks),
                          LAMBDA u : Visible(u, tasks, response.req.showCompleted))
            IN [isArray |-> TRUE,
                values |-> [i \in DOMAIN ids |->
                              formatTask(Resource(ids[i], tasks[ids[i]].data))]]
       [] name = "delete_task" ->
            [isArray |-> FALSE,
             values |-> << [deleted |-> JsTrue, taskId |-> t] >>]
       [] OTHER ->
            [isArray |-> FALSE,
             values |-> << formatTask(Resource(t, tasks[t].data)) >>]

\* the text of a success: the JSON of the handler's return value
SuccessText ==
  /\ Len(Content) = 1
  /\ Content[1].type = "text"
  /\ Content[1].prefix = ""
  /\ Content[1].message = ""
  /\ response.returned = Expected
  /\ Content[1].json = Stringify(response.returned)

\* C2 as stated: whenever the selected handler succeeds, the tool result
\* has isError false and one text item holding the JSON of the handler's
\* result.
C2_Original ==
  (response.sent /\ response.thrown = NoError) =>
    (response.result.isError = JsFalse /\ SuccessText)

\* C2 as amended: whenever the selected handler succeeds, the tool result
\* has no isError property (it is not true) and exactly one item, of type
\* text, whose text is the JSON of the handler's result.
C2_SuccessIsSerialized ==
  (response.sent /\ response.thrown = NoError) =>
    (response.result.isError = Undefined /\ SuccessText)

\* C2 witness: get_task succeeded and its text is the JSON of a task.
C2_Witness ==
  /\ Succeeded("get_task")
  /\ Len(Content[1].json.values) = 1
  /\ Content[1].json.values[1].id = response.args.task_id

\* C3 as stated: a call of one of the eight tools made while the
\* credentials file or the tokens file is absent ends with isError true and
\* a configuration error message, and issues no remote operation.
C3_Original ==
  (/\ response.sent
   /\ response.inv.name \in RegisteredNames
   /\ (response.inv.creds = "absent" \/ response.inv.tokens = "absent")) =>
    /\ response.result.isError = JsTrue
    /\ Content[1].message \in {MissingCreds, MissingTokens}
    /\ response.inv.ops = 0

UpdatableFields == {"title", "notes", "due", "status"}

\* one step seen from update_task: what the step did to the remote record
C4_Step ==
  (response'.sent /\ response'.inv.name = "update_task" /\ response'.inv.ops > 0) =>
    LET a == response'.args
        t == a.task_id
        supplied == {k \in UpdatableFields : a[k] # Undefined}
        stamped == a.status = "completed"
    IN IF response'.thrown = NoError
       THEN /\ DOMAIN response'.req.body =
                 supplied \cup (IF stamped THEN {"completed"} ELSE {})
            /\ \A f \in TaskFields :
                 tasks'[t].data[f] =
                   IF f \in supplied THEN a[f]
                   ELSE IF f = "completed" /\ stamped THEN Now
                   ELSE tasks[t].data[f]
            /\ stamped => tasks'[t].data.completed \notin {Null, Undefined}
            /\ \A u \in AllIds \ {t} : tasks'[u] = tasks[u]
       ELSE tasks' = tasks

\* C4: update_task changes the fields among title, notes, due and status
\* that its arguments hold and leaves every other field of the remote
\* record as it was, except that completed is set to the current time,
\* never null, exactly when status is given as "completed".
C4_PartialUpdate == [][C4_Step]_vars

\* C4 witness: update_task with only status "completed" succeeded on a task
\* that has notes; the notes and the title are still there and completed is
\* stamped.
C4_Witness ==
  /\ Succeeded("update_task")
  /\ {k \in UpdatableFields : response.args[k] # Undefined} = {"status"}
  /\ response.args.status = "completed"
  /\ tasks[response.args.task_id].data.notes = "2 loaves"
  /\ tasks[response.args.task_id].data.title = "Buy milk"
  /\ tasks[response.args.task_id].data.completed = Now

AuthValid(inv) == inv.creds = "valid" /\ inv.tokens = "valid"

\* C5 as stated, for calls that carry an arguments object: with the
\* authorization material present, a call issues exactly one remote
\* operation, and a call of complete_task issues two.
C5_Original ==
  (/\ response.sent
   /\ response.inv.name \in RegisteredNames
   /\ response.inv.hasArgs
   /\ AuthValid(response.inv)) =>
    response.inv.ops = IF response.inv.name = "complete_task" THEN 2 ELSE 1

\* C5 as amended: with the authorization material present and well formed,
\* a call of one of the eight tools issues at most one remote operation,
\* whether it fails or not: exactly one, complete_task included, when the
\* arguments object is present or the tool is list_task_lists, and none
\* when another tool is called without an arguments object.
C5_SingleShot ==
  /\ \A inv \in BagToSet(inflight) : inv.ops = 1
  /\ (/\ response.sent
      /\ response.inv.name \in RegisteredNames
      /\ AuthValid(response.inv)) =>
       response.inv.ops =
         IF response.inv.hasArgs \/ response.inv.name = "list_task_lists"
         THEN 1 ELSE 0

\* C5 witness: complete_task succeeded after one remote operation, a patch.
C5_Witness ==
  /\ Succeeded("complete_task")
  /\ response.inv.ops = 1
  /\ response.req.method = "tasks.patch"
  /\ tasks[response.args.task_id].data.status = "completed"

\* one step seen from complete_task: update_task with only status
\* "completed", on the same task in the same remote state
C6_Step ==
  (/\ response'.sent
   /\ response'.inv.name = "complete_task"
   /\ response'.inv.ops > 0
   /\ response'.thrown \notin TransportErrors) =>
    LET a == [response'.args EXCEPT !.status = "completed"]
        req == Dispatch("update_task", a)
        reply == Service(req, tasks)
    IN /\ response'.req = req
       /\ tasks' = reply.tasks
       /\ response'.result =
            CallToolReturn(reply.error, HandlerResult("update_task", a, reply)).result

\* C6: complete_task on a list id and a task id sends the remote service
\* the request that update_task sends for the same ids with only status
\* "completed", changes the remote record the same way and returns the
\* same tool result.
C6_CompleteIsUpdate == [][C6_Step]_vars

\* C6 witness: complete_task succeeded with the request body of update_task
\* for status "completed".
C6_Witness ==
  /\ Succeeded("complete_task")
  /\ response.req.body = [status |-> "completed", completed |-> Now]
  /\ Content[1].json.values[1].status = "completed"

\* the table of the tool-call surface: required and optional parameters
\* of each tool
SpecTable ==
  [list_task_lists |-> [required |-> {}, optional |-> {}],
   list_tasks |->
     [required |-> {},
      optional |-> {"tasklist_id", "show_completed", "due_min", "due_max"}],
   get_task |-> [required |-> {"tasklist_id", "task_id"}, optional |-> {}],
   create_task |->
     [required |-> {"title"},
      optional |-> {"tasklist_id", "notes", "due", "parent"}],
   update_task |->
     [required |-> {"tasklist_id", "task_id"},
      optional |-> {"title", "notes", "due", "status"}],
   complete_task |-> [required |-> {"tasklist_id", "task_id"}, optional |-> {}],
   delete_task |-> [required |-> {"tasklist_id", "task_id"}, optional |-> {}],
   move_task |->
     [required |-> {"tasklist_id", "task_id"},
      optional |-> {"parent", "previous"}]]

MatchesTable(tools) ==
  /\ Len(tools) = 8
  /\ {tools[i].name : i \in DOMAIN tools} = DOMAIN SpecTable
  /\ \A i \in DOMAIN tools :
       /\ tools[i].required = SpecTable[tools[i].name].required
       /\ tools[i].properties \ tools[i].required =
            SpecTable[tools[i].name].optional
       /\ tools[i].required \subseteq tools[i].properties

\* C7: whatever list-tools and call-tool requests came before, the
\* registry holds, and list-tools returns, exactly eight descriptors, one
\* for each of the eight tool names, each with the required and the
\* optional parameters of the table.
C7_EightDescriptors ==
  /\ MatchesTable(registry)
  /\ (listed # << >> => (listed = registry /\ MatchesTable(listed)))

\* C7 witness: list-tools answered after a task was created and another
\* call is still in flight.
C7_Witness ==
  /\ listed # << >>
  /\ \E t \in AllIds : tasks[t].state = "live"
  /\ inflight # EmptyBag

TitleOnly == WithArgs([title |-> "Buy milk"])

\* C8: create_task inserts with status "needsAction" whatever its
\* arguments are and sends a parent only when its arguments hold one;
\* called with only a title it returns a task with that title, notes "",
\* status "needsAction", due null and parent null.
C8_CreateTask ==
  (Reached /\ response.inv.name = "create_task") =>
    /\ response.req.method = "tasks.insert"
    /\ "status" \in DOMAIN response.req.body
    /\ response.req.body["status"] = "needsAction"
    /\ (response.req.parent # Undefined =>
          (response.args.parent # Undefined
           /\ response.req.parent = response.args.parent))
    /\ (response.thrown = NoError =>
          /\ tasks[LastId].data.status = "needsAction"
          /\ Content[1].json.values[1].status = "needsAction")
    /\ ((response.thrown = NoError /\ response.args = TitleOnly) =>
          LET task == Content[1].json.values[1]
          IN /\ task.title = "Buy milk"
             /\ task.notes = ""
             /\ task.status = "needsAction"
             /\ task.due = Null
             /\ task.parent = Null)

\* C8 witness: create_task with only the title "Buy milk" succeeded.
C8_Witness ==
  /\ Succeeded("create_task")
  /\ response.args = TitleOnly
  /\ Content[1].json.values[1].title = "Buy milk"
  /\ Content[1].json.values[1].parent = Null

\* C9: delete_task that succeeds returns {deleted: true, taskId} for the
\* task id it was given; once a task is deleted, get_task on its list id
\* and task id ends in a tool result with isError true, not in a thrown
\* error, and the result carries the service's not-found message whenever
\* the service answered the request.
C9_DeleteThenGet ==
  /\ Succeeded("delete_task") =>
       /\ tasks[response.args.task_id].state = "deleted"
       /\ ~response.returned.isArray
       /\ Content[1].json.values =
            << [deleted |-> JsTrue, taskId |-> response.args.task_id] >>
  /\ (/\ Reached
      /\ response.inv.name = "get_task"
      /\ response.args.task_id \in AllIds
      /\ tasks[response.args.task_id].state = "deleted") =>
       /\ ~response.escaped
       /\ response.result.isError = JsTrue
       /\ (response.thrown \notin TransportErrors =>
             Content[1].message = NotFoundError)

\* C9 witness: get_task on a deleted task was answered "not found".
C9_Witness ==
  /\ Reached
  /\ response.inv.name = "get_task"
  /\ response.args.task_id \in AllIds
  /\ tasks[response.args.task_id].state = "deleted"
  /\ Content[1].message = NotFoundError

\* C10 as stated: no two handlers are in flight at the same time.
C10_Original == BagCardinality(inflight) <= 1

\* C10 as amended: handlers overlap, but only at their await of the remote
\* service: every handler in flight has read its arguments, has passed the
\* authorization check and has issued exactly one remote operation.
C10_OverlapAtAwait ==
  \A inv \in BagToSet(inflight) :
    /\ inv.name \in SwitchCases
    /\ (inv.hasArgs \/ inv.name = "list_task_lists")
    /\ buildClient(inv.creds, inv.tokens) = NoError
    /\ inv.ops = 1

\* C10 witness: update_task and delete_task are in flight together.
C10_Witness ==
  /\ BagCardinality(inflight) = 2
  /\ \E a, b \in BagToSet(inflight) :
       a.name = "update_task" /\ b.name = "delete_task"

\* the members of a Task in the data model, and the one more that
\* formatTask copies from the record
TaskMembers ==
  {"id", "title", "notes", "status", "due", "completed", "parent",
   "position", "updated"}

Absent(v) == v = Undefined

C12_NormalizationIdempotent ==
  \A i \in DOMAIN normalized : i > 1 => normalized[i] = normalized[i - 1]

\* C12 witness: a record without title, due and position and with empty
\* notes was normalized, and the result was normalized again.
C12_Witness ==
  /\ Len(normalized) >= 2
  /\ Absent(raw[1].title) /\ Absent(raw[1].due) /\ Absent(raw[1].position)
  /\ raw[1].notes = ""
  /\ normalized[1].title = "" /\ normalized[1].due = Null
  /\ normalized[2] = normalized[1]

====
